---- MODULE Spec2Model ----
(***************************************************************************)
(* Model of 0x02-redis_basic/exercise.py: the Cache facade over a Redis    *)
(* store, the count_calls and call_history decorators, the typed readers   *)
(* and replay.  Every Redis command is one atomic step; the Python code    *)
(* between two commands of one invocation can be interleaved with the      *)
(* commands of other invocations.                                          *)
(***************************************************************************)
EXTENDS Integers, Sequences, FiniteSets, TLC

\* ------------------------------------------------------------------ bounds
NumThreads == 2      \* concurrent callers of Cache.store
MaxCalls == 2        \* invocations of Cache.store in one behaviour
MaxInt == 9          \* integers -1..MaxInt are the numerals int() can parse
MaxCaches == 2       \* Cache instances constructed on the one store

Threads == 1..NumThreads
IntLits == (0 - 1)..(MaxInt + MaxCalls)

Min(a, b) == IF a < b THEN a ELSE b

\* ----------------------------------------------------------- Python values
\* A Python value is a record: t its type, s its text (str, bytes content,
\* float repr, exception name), n its number (int).
PyStr(s) == [t |-> "str", s |-> s, n |-> 0]
PyBytes(s) == [t |-> "bytes", s |-> s, n |-> 0]
PyInt(n) == [t |-> "int", s |-> "", n |-> n]
PyFloat(r) == [t |-> "float", s |-> r, n |-> 0]
PyList(r) == [t |-> "list", s |-> r, n |-> 0]
PyNone == [t |-> "None", s |-> "", n |-> 0]
PyExc(name) == [t |-> "exception", s |-> name, n |-> 0]

\* repr(v)
Repr(v) ==
  CASE v.t = "str" -> "'" \o v.s \o "'"
    [] v.t = "bytes" -> "b'" \o v.s \o "'"
    [] v.t = "int" -> ToString(v.n)
    [] v.t = "None" -> "None"
    [] OTHER -> v.s

\* str(v)
Str(v) == IF v.t = "str" THEN v.s ELSE Repr(v)

\* str(args) of a tuple of positional arguments
StrArgs(args) ==
  IF Len(args) = 0 THEN "()" ELSE "(" \o Repr(args[1]) \o ",)"

\* int(b): the integer a numeral denotes, ValueError otherwise
IsNumeral(s) == \E n \in IntLits : ToString(n) = s
ParseInt(s) == CHOOSE n \in IntLits : ToString(n) = s

\* ------------------------------------------------------------ Redis store
QualName == "Cache.store"
UuidStr(i) == "uuid-" \o ToString(i)
UuidKeys == {UuidStr(i) : i \in 1..MaxCalls}
NoKey == "nonexistent-key"
KeyIn(name) == name \o ":inputs"
KeyOut(name) == name \o ":outputs"
Keys == {QualName, KeyIn(QualName), KeyOut(QualName), NoKey} \cup UuidKeys

RNone == [kind |-> "none", str |-> "", list |-> <<>>]
RString(b) == [kind |-> "string", str |-> b, list |-> <<>>]
RList(l) == [kind |-> "list", str |-> "", list |-> l]

\* redis-py encodes a command argument: bytes as they are, str as UTF-8,
\* int and float by repr; any other type raises DataError.
Encodable(v) == v.t \in {"str", "bytes", "int", "float"}
Encode(v) == IF v.t = "int" THEN ToString(v.n) ELSE v.s

FlushDb == [k \in Keys |-> RNone]

RedisSet(store, key, v) == [store EXCEPT ![key] = RString(Encode(v))]

RedisGet(store, key) ==
  CASE store[key].kind = "string" -> PyBytes(store[key].str)
    [] store[key].kind = "none" -> PyNone
    [] OTHER -> PyExc("ResponseError")

RedisExists(store, key) == IF store[key].kind = "none" THEN 0 ELSE 1

RedisIncr(store, key) ==
  IF store[key].kind = "none"
  THEN [store EXCEPT ![key] = RString("1")]
  ELSE [store EXCEPT ![key] = RString(ToString(ParseInt(store[key].str) + 1))]

RedisRPush(store, key, v) ==
  [store EXCEPT ![key] = RList(Append(store[key].list, Encode(v)))]

\* LRANGE key start end, end = -1 meaning the last element
RedisLRange(store, key, start, end) ==
  LET l == store[key].list
      last == IF end < 0 THEN Len(l) + end + 1 ELSE Min(end + 1, Len(l))
  IN [i \in 1..(last - start) |-> PyBytes(l[start + i])]

\* ------------------------------------------------------------------ state
VARIABLES db,          \* the Redis database: key -> value
          uuids,       \* number of identifiers uuid4 has produced
          pc,          \* pc[t]: where caller t is in its store invocation
          cur,         \* cur[t]: the invocation caller t is running
          calls,       \* activation records of the invocations, in start order
          inOwner,     \* inOwner[i]: the invocation that appended Inputs[i]
          overlapped,  \* two invocations have been in flight at once
          last,        \* the last read: its operation, key, fn and result
          rpc,         \* where replay is
          fxn_call_count, fxn_inputs, fxn_outputs,   \* replay's locals
          printed,     \* the lines replay has printed
          built,       \* number of Cache instances constructed on the store
          torn         \* a construction cleared the store under an invocation

writer == <<db, uuids, pc, cur, calls, inOwner, overlapped>>
reader == <<last, rpc, fxn_call_count, fxn_inputs, fxn_outputs, printed>>
shared == <<built, torn>>
vars == <<writer, reader, shared>>

\* What store can be called with: one positional argument, the keyword
\* argument data=..., or no argument at all.
Data == {PyStr("foo"), PyBytes("foo"), PyInt(7), PyFloat("1.5"), PyList("[1]")}
Invocations ==
  [args : {<<d>> : d \in Data}, kwargs : {<<>>}]
    \cup [args : {<<>>}, kwargs : {<<>>, <<PyStr("bar")>>}]
\* The invocations concurrent callers make: a text, a number, a value Redis
\* refuses and a call without arguments.
ConcInvocations ==
  [args : {<<PyStr("foo")>>, <<PyInt(7)>>, <<PyList("[1]")>>, <<>>},
   kwargs : {<<>>}]

\* The invocations made while Cache instances are constructed: one that
\* succeeds and one that fails.
FlushInvocations == [args : {<<PyInt(7)>>, <<>>}, kwargs : {<<>>}]

\* seen: the invocations that had returned when the read was made
NoRead == [op |-> "none", key |-> "", fn |-> "None", ret |-> PyNone, seen |-> {}]

Init ==
  /\ db = FlushDb
  /\ uuids = 0
  /\ pc = [t \in Threads |-> "idle"]
  /\ cur = [t \in Threads |-> 0]
  /\ calls = <<>>
  /\ inOwner = <<>>
  /\ overlapped = FALSE
  /\ last = NoRead
  /\ rpc = "idle"
  /\ fxn_call_count = 0
  /\ fxn_inputs = <<>>
  /\ fxn_outputs = <<>>
  /\ printed = <<>>
  /\ built = 1
  /\ torn = FALSE

\* ------------------------------------------------- Cache.store, decorated
\* A Cache built by __init__ holds a redis.Redis client in _redis.
CacheInstance == [_redis |-> "redis.Redis"]
\* A variant that only tests the handle against None.
IsNotNone(handle) == handle # "None"
\* isinstance(handle, redis.Redis)
IsRedis(handle) == handle = "redis.Redis"

\* A variant in which call_history is the outermost wrapper and count_calls
\* is never entered.
CallHistoryOutermost(t, inv) ==
  /\ pc[t] = "idle"
  /\ Len(calls) < MaxCalls
  /\ calls' = Append(calls, [args |-> inv.args, kwargs |-> inv.kwargs,
                             output |-> PyNone, status |-> "running",
                             ret |-> PyNone])
  /\ cur' = [cur EXCEPT ![t] = Len(calls) + 1]
  /\ pc' = [pc EXCEPT ![t] = "history_in"]
  /\ overlapped' = (overlapped \/ \E u \in Threads \ {t} : pc[u] # "idle")
  /\ UNCHANGED <<db, uuids, inOwner>>
  /\ UNCHANGED reader
  /\ UNCHANGED shared

\* A caller starts store(*args, **kwargs): the outermost wrapper is entered.
Call(t, inv) ==
  /\ pc[t] = "idle"
  /\ Len(calls) < MaxCalls
  /\ calls' = Append(calls, [args |-> inv.args, kwargs |-> inv.kwargs,
                             output |-> PyNone, status |-> "running",
                             ret |-> PyNone])
  /\ cur' = [cur EXCEPT ![t] = Len(calls) + 1]
  /\ pc' = [pc EXCEPT ![t] = "count_calls"]
  /\ overlapped' = (overlapped \/ \E u \in Threads \ {t} : pc[u] # "idle")
  /\ UNCHANGED <<db, uuids, inOwner>>
  /\ UNCHANGED reader
  /\ UNCHANGED shared

\* Variants of the increment: SET to 1; count the first call only; DECR.
CountCallsSet(store) == RedisSet(store, QualName, PyInt(1))
CountCallsOnce(store) ==
  IF RedisExists(store, QualName) = 0 THEN RedisIncr(store, QualName) ELSE store
CountCallsDecr(store) ==
  RedisSet(store, QualName,
           PyInt(IF store[QualName].kind = "none" THEN 0 - 1
                 ELSE ParseInt(store[QualName].str) - 1))
\* count_calls.invoker: INCR the counter, then call the wrapped method.
CountCallsDb(store) ==
  IF IsRedis(CacheInstance._redis) THEN RedisIncr(store, QualName) ELSE store

CountCalls(t) ==
  /\ pc[t] = "count_calls"
  /\ db' = CountCallsDb(db)
  /\ pc' = [pc EXCEPT ![t] = "history_in"]
  /\ UNCHANGED <<uuids, cur, calls, inOwner, overlapped>>
  /\ UNCHANGED reader
  /\ UNCHANGED shared

\* A variant that pushes the input at the head of the log (LPUSH).
HistoryInputFirst(store, args) ==
  [store EXCEPT ![KeyIn(QualName)] =
     RList(<<StrArgs(args)>> \o store[KeyIn(QualName)].list)]
\* call_history.invoker, before the call: RPUSH str(args) to the Inputs log.
HistoryInputDb(store, args) ==
  IF IsRedis(CacheInstance._redis)
  THEN RedisRPush(store, KeyIn(QualName), PyStr(StrArgs(args)))
  ELSE store

HistoryInput(t) ==
  /\ pc[t] = "history_in"
  /\ db' = HistoryInputDb(db, calls[cur[t]].args)
  /\ inOwner' = Append(inOwner, cur[t])
  /\ pc' = [pc EXCEPT ![t] = "method"]
  /\ UNCHANGED <<uuids, cur, calls, overlapped>>
  /\ UNCHANGED reader
  /\ UNCHANGED shared

\* Python binds the parameter data of store(self, data).
Bound(c) == Len(c.args) + Len(c.kwargs) = 1
DataOf(c) == IF Len(c.args) = 1 THEN c.args[1] ELSE c.kwargs[1]

\* A variant whose identifier is produced once and used by every call.
Uuid4Fixed(n) == UuidStr(1)
\* key = str(uuid.uuid4()): uuid4 is taken to never repeat an identifier.
Uuid4(n) == UuidStr(n + 1)

\* A variant that stores str(data).
StoreDbStr(store, key, data) == RedisSet(store, key, PyStr(Str(data)))
\* self._redis.set(key, data)
StoreDb(store, key, data) == RedisSet(store, key, data)

Raise(t, name) ==
  /\ calls' = [calls EXCEPT ![cur[t]].status = "raised",
                            ![cur[t]].ret = PyExc(name)]
  /\ pc' = [pc EXCEPT ![t] = "idle"]
  /\ cur' = [cur EXCEPT ![t] = 0]

\* A variant that takes the logged input back when the call fails.
StoreMethodCompensating(t) ==
  /\ pc[t] = "method"
  /\ LET c == calls[cur[t]]
         l == db[KeyIn(QualName)].list
         undone == [db EXCEPT ![KeyIn(QualName)] = RList(SubSeq(l, 1, Len(l) - 1))]
     IN
       IF ~Bound(c)
       THEN /\ Raise(t, "TypeError")
            /\ db' = undone
            /\ UNCHANGED uuids
       ELSE /\ uuids' = uuids + 1
            /\ IF Encodable(DataOf(c))
               THEN /\ db' = StoreDb(db, Uuid4(uuids), DataOf(c))
                    /\ calls' = [calls EXCEPT
                                   ![cur[t]].output = PyStr(Uuid4(uuids))]
                    /\ pc' = [pc EXCEPT ![t] = "history_out"]
                    /\ UNCHANGED cur
               ELSE /\ Raise(t, "DataError")
                    /\ db' = undone
  /\ UNCHANGED <<inOwner, overlapped>>
  /\ UNCHANGED reader
  /\ UNCHANGED shared

\* Cache.store, called by call_history.invoker: output = method(self, ...).
\* A failure leaves both wrappers by the exception.
StoreMethod(t) ==
  /\ pc[t] = "method"
  /\ LET c == calls[cur[t]] IN
       IF ~Bound(c)
       THEN /\ Raise(t, "TypeError")
            /\ UNCHANGED <<db, uuids>>
       ELSE /\ uuids' = uuids + 1
            /\ IF Encodable(DataOf(c))
               THEN /\ db' = StoreDb(db, Uuid4(uuids), DataOf(c))
                    /\ calls' = [calls EXCEPT
                                   ![cur[t]].output = PyStr(Uuid4(uuids))]
                    /\ pc' = [pc EXCEPT ![t] = "history_out"]
                    /\ UNCHANGED cur
               ELSE /\ Raise(t, "DataError")
                    /\ UNCHANGED db
  /\ UNCHANGED <<inOwner, overlapped>>
  /\ UNCHANGED reader
  /\ UNCHANGED shared

\* A variant that pushes the output at the head of the log (LPUSH).
HistoryOutputFirst(store, output) ==
  [store EXCEPT ![KeyOut(QualName)] =
     RList(<<Encode(output)>> \o store[KeyOut(QualName)].list)]
\* A variant that pushes the output to the Inputs log.
HistoryOutputWrongKey(store, output) == RedisRPush(store, KeyIn(QualName), output)
\* call_history.invoker, after the call: RPUSH the output to the Outputs log.
HistoryOutputDb(store, output) ==
  IF IsRedis(CacheInstance._redis)
  THEN RedisRPush(store, KeyOut(QualName), output)
  ELSE store

HistoryOutput(t) ==
  /\ pc[t] = "history_out"
  /\ db' = HistoryOutputDb(db, calls[cur[t]].output)
  /\ pc' = [pc EXCEPT ![t] = "return"]
  /\ UNCHANGED <<uuids, cur, calls, inOwner, overlapped>>
  /\ UNCHANGED reader
  /\ UNCHANGED shared

\* return output (call_history.invoker), returned unchanged by count_calls.
Returned(output) == output

Return(t) ==
  /\ pc[t] = "return"
  /\ calls' = [calls EXCEPT ![cur[t]].status = "returned",
                            ![cur[t]].ret = Returned(calls[cur[t]].output)]
  /\ pc' = [pc EXCEPT ![t] = "idle"]
  /\ cur' = [cur EXCEPT ![t] = 0]
  /\ UNCHANGED <<db, uuids, inOwner, overlapped>>
  /\ UNCHANGED reader
  /\ UNCHANGED shared

\* Variants of the construction: flushdb left out; only the counter dropped.
ConstructKeeps(store) == store
ConstructDropsCounter(store) == [store EXCEPT ![QualName] = RNone]
\* Cache.__init__: self._redis = redis.Redis(); self._redis.flushdb()
ConstructDb(store) == FlushDb

\* Another Cache is constructed on the same Redis database, at any moment.
Construct ==
  /\ built < MaxCaches
  /\ built' = built + 1
  /\ db' = ConstructDb(db)
  /\ inOwner' = <<>>
  /\ torn' = (torn \/ \E t \in Threads : pc[t] # "idle")
  /\ UNCHANGED <<uuids, pc, cur, calls, overlapped>>
  /\ UNCHANGED reader

\* ------------------------------------------------------------ the readers
ReadKeys == UuidKeys \cup {NoKey}
\* fn of Cache.get: None, int, or lambda d: d.decode("utf-8")
Fns == {"None", "int", "decode"}

\* int(data)
IntOf(data) ==
  CASE data.t = "None" -> PyExc("TypeError")
    [] data.t = "bytes" /\ IsNumeral(data.s) -> PyInt(ParseInt(data.s))
    [] OTHER -> PyExc("ValueError")

\* data.decode("utf-8")
Decode(data) == IF data.t = "bytes" THEN PyStr(data.s) ELSE PyExc("AttributeError")

Apply(fn, data) == IF fn = "int" THEN IntOf(data) ELSE Decode(data)

\* Cache.get(key, fn)
CacheGet(store, key, fn) ==
  LET data == RedisGet(store, key)
  IN IF fn # "None" THEN Apply(fn, data) ELSE data

\* Cache.get_str(key)
CacheGetStr(store, key) ==
  LET data == CacheGet(store, key, "None")
  IN IF data = PyNone THEN PyNone ELSE PyStr(Str(data))

\* A variant without the test for None.
GetIntUnchecked(store, key) == IntOf(CacheGet(store, key, "None"))
\* get_int(self, key)
GetIntFn(store, key) ==
  LET data == CacheGet(store, key, "None")
  IN IF data = PyNone THEN PyNone ELSE IntOf(data)

ReplayIdle == rpc \in {"idle", "done", "failed"}
HasReturned == {i \in 1..Len(calls) : calls[i].status = "returned"}

\* The client runs one operation at a time: a read starts after replay ended.
ResetReplay ==
  /\ rpc' = "idle"
  /\ fxn_call_count' = 0
  /\ fxn_inputs' = <<>>
  /\ fxn_outputs' = <<>>
  /\ printed' = <<>>

\* A variant of get that is counted like store.
GetCounted(key, fn) ==
  /\ ReplayIdle
  /\ last' = [op |-> "get", key |-> key, fn |-> fn,
              ret |-> CacheGet(db, key, fn), seen |-> HasReturned]
  /\ ResetReplay
  /\ db' = RedisIncr(db, QualName)
  /\ UNCHANGED <<uuids, pc, cur, calls, inOwner, overlapped>>
  /\ UNCHANGED shared

Get(key, fn) ==
  /\ ReplayIdle
  /\ last' = [op |-> "get", key |-> key, fn |-> fn,
              ret |-> CacheGet(db, key, fn), seen |-> HasReturned]
  /\ ResetReplay
  /\ UNCHANGED writer
  /\ UNCHANGED shared

GetStr(key) ==
  /\ ReplayIdle
  /\ last' = [op |-> "get_str", key |-> key, fn |-> "None",
              ret |-> CacheGetStr(db, key), seen |-> HasReturned]
  /\ ResetReplay
  /\ UNCHANGED writer
  /\ UNCHANGED shared

GetInt(key) ==
  /\ ReplayIdle
  /\ last' = [op |-> "get_int", key |-> key, fn |-> "None",
              ret |-> GetIntFn(db, key), seen |-> HasReturned]
  /\ ResetReplay
  /\ UNCHANGED writer
  /\ UNCHANGED shared

\* --------------------------------------------------------------- replay
\* What replay can be given: the bound method cache.store, None, a plain
\* function (no __self__), a method of an object without _redis, a method of
\* an object whose _redis is no redis.Redis.
Targets == {"Cache.store", "None", "function", "no_redis", "not_redis"}
HasSelf(fn) == fn \in {"Cache.store", "no_redis", "not_redis"}
RedisOf(fn) ==
  CASE fn = "Cache.store" -> CacheInstance._redis
    [] fn = "not_redis" -> "dict"
    [] OTHER -> "None"

Header(name, count) == name \o " was called " \o ToString(count) \o " times:"
OutLine(name, input, output) ==
  name \o "(*" \o Decode(input).s \o ") -> "
       \o (IF output.t = "bytes" THEN Decode(output).s ELSE Repr(output))

\* A variant that pairs up to the end of the first sequence.
ZipLongest(a, b) ==
  [i \in 1..Len(a) |-> <<a[i], IF i <= Len(b) THEN b[i] ELSE PyNone>>]
\* zip(a, b): the pairs up to the end of the shorter sequence
Zip(a, b) == [i \in 1..Min(Len(a), Len(b)) |-> <<a[i], b[i]>>]

\* replay(fn) is entered: the two guards, then EXISTS on the counter.
ReplayCall(fn) ==
  /\ ReplayIdle
  /\ last' = [op |-> "replay", key |-> "", fn |-> fn, ret |-> PyNone,
              seen |-> {}]
  /\ fxn_call_count' = 0
  /\ fxn_inputs' = <<>>
  /\ fxn_outputs' = <<>>
  /\ printed' = <<>>
  /\ rpc' = IF fn = "None" \/ ~HasSelf(fn) \/ ~IsRedis(RedisOf(fn))
            THEN "done" ELSE "exists"
  /\ UNCHANGED writer
  /\ UNCHANGED shared

ReplayExists ==
  /\ rpc = "exists"
  /\ IF RedisExists(db, QualName) # 0
     THEN /\ rpc' = "get"
          /\ UNCHANGED printed
     ELSE /\ rpc' = "inputs"
          /\ printed' = <<Header(QualName, fxn_call_count)>>
  /\ UNCHANGED <<writer, last, fxn_call_count, fxn_inputs, fxn_outputs>>
  /\ UNCHANGED shared

\* fxn_call_count = int(redis_store.get(fxn_name) or 0), then the header
ReplayGet ==
  /\ rpc = "get"
  /\ LET got == RedisGet(db, QualName)
         count == IF got = PyNone \/ got.s = "" THEN PyInt(0) ELSE IntOf(got)
     IN IF count.t = "int"
        THEN /\ fxn_call_count' = count.n
             /\ printed' = <<Header(QualName, count.n)>>
             /\ rpc' = "inputs"
        ELSE /\ rpc' = "failed"
             /\ UNCHANGED <<fxn_call_count, printed>>
  /\ UNCHANGED <<writer, last, fxn_inputs, fxn_outputs>>
  /\ UNCHANGED shared

\* A variant that empties the log it has read.
ReplayInputsDraining ==
  /\ rpc = "inputs"
  /\ fxn_inputs' = RedisLRange(db, KeyIn(QualName), 0, 0 - 1)
  /\ db' = [db EXCEPT ![KeyIn(QualName)] = RNone]
  /\ rpc' = "outputs"
  /\ UNCHANGED <<uuids, pc, cur, calls, inOwner, overlapped>>
  /\ UNCHANGED shared
  /\ UNCHANGED <<last, fxn_call_count, fxn_outputs, printed>>

ReplayInputs ==
  /\ rpc = "inputs"
  /\ fxn_inputs' = RedisLRange(db, KeyIn(QualName), 0, 0 - 1)
  /\ rpc' = "outputs"
  /\ UNCHANGED <<writer, last, fxn_call_count, fxn_outputs, printed>>
  /\ UNCHANGED shared

\* the second LRANGE, then one line for each pair of zip
ReplayOutputs ==
  /\ rpc = "outputs"
  /\ LET outs == RedisLRange(db, KeyOut(QualName), 0, 0 - 1)
         pairs == Zip(fxn_inputs, outs)
     IN /\ fxn_outputs' = outs
        /\ printed' = printed \o
             [i \in 1..Len(pairs) |-> OutLine(QualName, pairs[i][1], pairs[i][2])]
  /\ rpc' = "done"
  /\ UNCHANGED <<writer, last, fxn_call_count, fxn_inputs>>
  /\ UNCHANGED shared

Next ==
  \E t \in Threads :
    \/ \E inv \in ConcInvocations : Call(t, inv)
    \/ CountCalls(t)
    \/ HistoryInput(t)
    \/ StoreMethod(t)
    \/ HistoryOutput(t)
    \/ Return(t)

Spec == Init /\ [][Next]_vars

\* One caller of store, with every kind of argument, beside a client that
\* reads and replays.
NextRead ==
  \/ \E inv \in Invocations : Call(1, inv)
  \/ CountCalls(1)
  \/ HistoryInput(1)
  \/ StoreMethod(1)
  \/ HistoryOutput(1)
  \/ Return(1)
  \/ \E key \in ReadKeys, fn \in Fns : Get(key, fn)
  \/ \E key \in ReadKeys : GetStr(key)
  \/ \E key \in ReadKeys : GetInt(key)
  \/ \E fn \in Targets : ReplayCall(fn)
  \/ ReplayExists
  \/ ReplayGet
  \/ ReplayInputs
  \/ ReplayOutputs

SpecRead == Init /\ [][NextRead]_vars

\* One caller, the reading client, and Cache instances constructed on the
\* store meanwhile.
NextFlush ==
  \/ \E inv \in FlushInvocations : Call(1, inv)
  \/ CountCalls(1)
  \/ HistoryInput(1)
  \/ StoreMethod(1)
  \/ HistoryOutput(1)
  \/ Return(1)
  \/ \E key \in ReadKeys, fn \in Fns : Get(key, fn)
  \/ \E key \in ReadKeys : GetStr(key)
  \/ \E key \in ReadKeys : GetInt(key)
  \/ \E fn \in Targets : ReplayCall(fn)
  \/ ReplayExists
  \/ ReplayGet
  \/ ReplayInputs
  \/ ReplayOutputs
  \/ Construct

SpecFlush == Init /\ [][NextFlush]_vars

\* ------------------------------------------------------------ what is checked
Counter ==
  IF db[QualName].kind = "none" THEN 0 ELSE ParseInt(db[QualName].str)
Inputs == db[KeyIn(QualName)].list
Outputs == db[KeyOut(QualName)].list
AllIdle == \A t \in Threads : pc[t] = "idle"
Raised == {i \in 1..Len(calls) : calls[i].status = "raised"}
At(places) == {t \in Threads : pc[t] \in places}

\* C1: after N sequential invocations of store on a fresh Cache, failed ones
\* included, the counter under "Cache.store" is exactly N.
C1_CounterIsNumberOfCalls ==
  (AllIdle /\ ~overlapped) => Counter = Len(calls)

C1_Witness ==
  AllIdle /\ ~overlapped /\ Len(calls) = 2 /\ db[QualName] = RString("2")

\* C2: after N sequential invocations that all returned, both logs have N
\* entries, Inputs[i] is str(args) of the i-th call and Outputs[i] is the key
\* the i-th call returned, which is the key the facade produced.
C2_LogsRecordEveryCall ==
  (AllIdle /\ ~overlapped /\ HasReturned = 1..Len(calls)) =>
    /\ Len(Inputs) = Len(calls)
    /\ Len(Outputs) = Len(calls)
    /\ \A i \in 1..Len(calls) :
         /\ Inputs[i] = StrArgs(calls[i].args)
         /\ calls[i].ret.t = "str"
         /\ Outputs[i] = calls[i].ret.s
         /\ calls[i].ret = calls[i].output
         /\ db[calls[i].ret.s].kind = "string"

C2_Witness ==
  /\ AllIdle /\ HasReturned = {1, 2}
  /\ Inputs = <<"(b'foo',)", "(7,)">>
  /\ Outputs = <<"uuid-1", "uuid-2">>
  /\ calls[1].ret = PyStr("uuid-1") /\ calls[2].ret = PyStr("uuid-2")

\* C3: in every state of every interleaving, the counter is the number of
\* invocations that have passed the increment step, whether their inner call
\* failed or not.
C3_CounterCountsIncrements ==
  Counter = Len(calls) - Cardinality(At({"count_calls"}))

C3_Witness ==
  /\ overlapped /\ Raised # {} /\ Counter = 2
  /\ At({"method", "history_out", "return"}) # {}

\* The index alignment of the two logs: Outputs[i] is the output of the
\* invocation that appended Inputs[i].
Aligned ==
  \A i \in 1..Min(Len(Inputs), Len(Outputs)) :
    Outputs[i] = Encode(calls[inOwner[i]].output)

\* C4 as claimed: the logs stay aligned under concurrent or failing calls.
C4_AlignedAlways == Aligned

\* C4: while no invocation has failed and no two invocations have overlapped,
\* Outputs[i] is the result of the invocation whose arguments are Inputs[i].
C4_AlignedWhenSequentialAndNoFailure ==
  (~overlapped /\ Raised = {}) => Aligned

C4_Witness ==
  ~overlapped /\ Raised = {} /\ Len(Outputs) = 2 /\ Len(Inputs) = 2

\* C5: an invocation whose inner call fails gets the exception, appends no
\* output, and its input stays: len(Inputs) - len(Outputs) is the number of
\* failed invocations plus the invocations between their two appends, in every
\* state, also after later store, get and replay operations.
C5_FailedCallsLeaveInputs ==
  /\ Len(Inputs) - Len(Outputs) =
       Cardinality(Raised) + Cardinality(At({"method", "history_out"}))
  /\ \A i \in Raised : calls[i].ret.t = "exception" /\ calls[i].output = PyNone

C5_Witness ==
  /\ Cardinality(Raised) = 2 /\ Len(Inputs) = 2 /\ Len(Outputs) = 0
  /\ rpc = "done" /\ Len(printed) = 1

\* What replay has read is the head of the stored log, in stored order.
HeadOf(read, log) ==
  /\ Len(read) <= Len(log)
  /\ \A j \in 1..Len(read) : read[j] = PyBytes(log[j])

\* C6: whatever the two logs hold, Outputs shorter than Inputs included, replay
\* ends without failure, and after the header it has printed exactly
\* min(len(Inputs), len(Outputs)) lines, the j-th made of the j-th input and
\* the j-th output it read, in stored order.
C6_ReplayPrintsThePairs ==
  /\ rpc # "failed"
  /\ (rpc = "done" /\ printed # <<>>) =>
       /\ Len(printed) - 1 = Min(Len(fxn_inputs), Len(fxn_outputs))
       /\ HeadOf(fxn_inputs, Inputs)
       /\ HeadOf(fxn_outputs, Outputs)
       /\ \A j \in 1..(Len(printed) - 1) :
            printed[j + 1] =
              "Cache.store(*" \o fxn_inputs[j].s \o ") -> " \o fxn_outputs[j].s

C6_Witness ==
  /\ rpc = "done"
  /\ Len(fxn_inputs) = 2 /\ Len(fxn_outputs) = 1
  /\ printed = <<"Cache.store was called 2 times:",
                 "Cache.store(*('foo',)) -> uuid-1">>

\* C7: no step of replay, for any target and any state of the store, changes
\* the counter, the logs or a stored value.
C7_ReplayIsReadOnly ==
  [][(rpc' # "idle" /\ reader' # reader) => db' = db]_vars

C7_Witness ==
  /\ rpc = "done" /\ Len(printed) = 3
  /\ Counter = 2 /\ Len(Inputs) = 2 /\ Len(Outputs) = 2

\* The last read was get(key) without fn, of the key invocation i returned
\* before the read.
GotKeyOf(i) ==
  /\ last.op = "get" /\ last.fn = "None"
  /\ i \in last.seen
  /\ last.key = calls[i].ret.s

\* C8 as claimed: get(store(v)) = v for text, bytes, int and float.
C8_RoundTrip ==
  \A i \in 1..Len(calls) : GotKeyOf(i) => last.ret = DataOf(calls[i])

\* C8: get(store(v)) is the byte string that encodes v: v itself for bytes,
\* the UTF-8 bytes of a text, the repr of a number as bytes; it equals v
\* exactly when v is bytes.
C8_RoundTripIsTheEncoding ==
  \A i \in 1..Len(calls) :
    GotKeyOf(i) =>
      /\ last.ret = PyBytes(Encode(DataOf(calls[i])))
      /\ (last.ret = DataOf(calls[i])) <=> (DataOf(calls[i]).t = "bytes")

C8_Witness ==
  /\ GotKeyOf(1)
  /\ DataOf(calls[1]) = PyInt(7) /\ last.ret = PyBytes("7")

\* C9: the keys store has returned are pairwise different, also for equal
\* values, and each still holds the value stored under it.
C9_KeysAreFreshAndKept ==
  /\ \A i, j \in HasReturned : i # j => calls[i].ret # calls[j].ret
  /\ \A i \in HasReturned :
       db[calls[i].ret.s] = RString(Encode(DataOf(calls[i])))

C9_Witness ==
  /\ HasReturned = {1, 2}
  /\ DataOf(calls[1]) = DataOf(calls[2])
  /\ calls[1].ret = PyStr("uuid-1") /\ calls[2].ret = PyStr("uuid-2")
  /\ db["uuid-1"] = RString("foo") /\ db["uuid-2"] = RString("foo")

\* C10: for a key that is not set, get without fn, get_str and get_int each
\* return None: no exception and no default value.
C10_AbsentKeyGivesNone ==
  (/\ last.op \in {"get", "get_str", "get_int"}
   /\ last.fn = "None"
   /\ db[last.key].kind = "none") => last.ret = PyNone

C10_Witness ==
  /\ last.op = "get_int" /\ last.key = NoKey /\ last.ret = PyNone
  /\ HasReturned # {}

\* C11: get with a transform on a key that is not set does not call the
\* transform and returns None.
C11_TransformSkippedWhenAbsent ==
  (/\ last.op = "get"
   /\ last.fn # "None"
   /\ db[last.key].kind = "none") => last.ret = PyNone

\* The step caller t takes, by the places it leaves and enters.
Step(t, from, to) == pc[t] = from /\ pc'[t] = to
Stored == {k \in UuidKeys : db[k].kind # "none"}

\* C12: every invocation of store goes through its steps in this order and
\* no other: entry, increment of the counter, append to Inputs, write of the
\* value under the fresh key, append of that key to Outputs, return; a failed
\* inner call leaves after the append to Inputs.  Each step has its own effect
\* on the store and no other.
C12_StepsInOrder ==
  [][\A t \in Threads :
       pc'[t] # pc[t] =>
         \/ Step(t, "idle", "count_calls") /\ db' = db
         \/ /\ Step(t, "count_calls", "history_in")
            /\ Counter' = Counter + 1
            /\ Inputs' = Inputs /\ Outputs' = Outputs /\ Stored' = Stored
         \/ /\ Step(t, "history_in", "method")
            /\ Inputs' = Append(Inputs, StrArgs(calls[cur[t]].args))
            /\ Counter' = Counter /\ Outputs' = Outputs /\ Stored' = Stored
         \/ /\ Step(t, "method", "history_out")
            /\ Stored' = Stored \cup {calls'[cur[t]].output.s}
            /\ calls'[cur[t]].output.s \notin Stored
            /\ Counter' = Counter /\ Inputs' = Inputs /\ Outputs' = Outputs
         \/ /\ Step(t, "method", "idle")
            /\ calls'[cur[t]].status = "raised" /\ db' = db
         \/ /\ Step(t, "history_out", "return")
            /\ Outputs' = Append(Outputs, calls[cur[t]].output.s)
            /\ calls[cur[t]].output.s \in Stored
            /\ Counter' = Counter /\ Inputs' = Inputs /\ Stored' = Stored
         \/ /\ Step(t, "return", "idle")
            /\ calls'[cur[t]].status = "returned"
            /\ calls'[cur[t]].ret = calls[cur[t]].output
            /\ db' = db]_vars

C12_Witness ==
  /\ HasReturned # {} /\ Raised # {} /\ overlapped
  /\ Counter = 2 /\ Len(Inputs) = 2 /\ Len(Outputs) = 1

\* The read of key was made after invocation i had returned that key.
ReadKeyOf(op, i) ==
  /\ last.op = op /\ last.fn = "None"
  /\ i \in last.seen
  /\ last.key = calls[i].ret.s

\* C15: get_str of the key of a stored text is that text, and get_int of the
\* key of a stored integer is that integer.
C15_TypedReadsGiveTheValue ==
  \A i \in 1..Len(calls) :
    /\ (ReadKeyOf("get_str", i) /\ DataOf(calls[i]).t = "str")
         => last.ret = DataOf(calls[i])
    /\ (ReadKeyOf("get_int", i) /\ DataOf(calls[i]).t = "int")
         => last.ret = DataOf(calls[i])

\* C17: in every state of every interleaving, failed calls included,
\* counter >= len(Inputs) >= len(Outputs).
C17_CounterInputsOutputs ==
  Counter >= Len(Inputs) /\ Len(Inputs) >= Len(Outputs)

C17_Witness ==
  /\ overlapped /\ Raised # {}
  /\ Counter = 2 /\ Len(Inputs) = 1 /\ Len(Outputs) = 0
  /\ At({"history_in"}) # {}

\* C18: when no invocation is in flight and none has failed, the counter and
\* the lengths of both logs equal the number of completed invocations, and
\* the Outputs log holds the returned keys, each exactly once.
C18_QuiescentCountsAgree ==
  (AllIdle /\ Raised = {}) =>
    /\ Counter = Len(calls)
    /\ Len(Inputs) = Len(calls)
    /\ Len(Outputs) = Len(calls)
    /\ HasReturned = 1..Len(calls)
    /\ \A i \in HasReturned :
         Cardinality({j \in 1..Len(Outputs) : Outputs[j] = calls[i].ret.s}) = 1

C18_Witness ==
  /\ AllIdle /\ Raised = {} /\ overlapped /\ Len(calls) = 2
  /\ calls[1].ret = PyStr("uuid-1") /\ calls[2].ret = PyStr("uuid-2")
  /\ Outputs = <<"uuid-2", "uuid-1">>

\* C19: get with or without fn, get_str and get_int change nothing in the
\* store, for a key that is set and for one that is not.
C19_ReadsChangeNothing ==
  [][(last' # last /\ last'.op \in {"get", "get_str", "get_int"})
       => db' = db]_vars

C19_Witness ==
  /\ last.op = "get" /\ last.fn = "int" /\ last.ret = PyInt(7)
  /\ Counter = 2 /\ Len(Inputs) = 2 /\ Len(Outputs) = 1

\* C16: replay of None, of a function without __self__, of a method of an
\* object without _redis or with a _redis that is no redis.Redis ends at once:
\* nothing printed, not even the header, no failure, no command sent to the
\* store.
C16_InvalidTargetIsNoOp ==
  (last.op = "replay" /\ last.fn \in Targets \ {"Cache.store"}) =>
    /\ rpc = "done"
    /\ printed = <<>>
    /\ fxn_call_count = 0 /\ fxn_inputs = <<>> /\ fxn_outputs = <<>>

C16_Witness ==
  /\ last.op = "replay" /\ last.fn = "not_redis"
  /\ rpc = "done" /\ printed = <<>>
  /\ Counter = 2 /\ Len(Inputs) = 2 /\ Len(Outputs) = 2

\* C13: the counter never goes down in a step of store, get, get_str,
\* get_int or replay; the one step that lowers it is the construction of a
\* Cache, which clears the store.
C13_CounterOnlyLoweredByConstruction ==
  [][/\ built' = built => Counter' >= Counter
     /\ Counter' < Counter => (built' = built + 1 /\ db' = FlushDb)]_vars

C13_Witness ==
  /\ built = 2 /\ Counter = 0
  /\ Len(calls) = 2 /\ HasReturned = {1, 2}
  /\ last.op = "get_int" /\ rpc = "idle"

\* C14: the construction of a Cache leaves the store without any key: the
\* counter is absent, both logs are empty, every key returned before is
\* absent; a replay that reads the counter in that state reports 0.
C14_ConstructionClearsTheStore ==
  [][/\ built' # built =>
          /\ db'[QualName] = RNone
          /\ Inputs' = <<>> /\ Outputs' = <<>>
          /\ \A i \in HasReturned : db'[calls[i].ret.s] = RNone
          /\ \A k \in Keys : db'[k] = RNone
     /\ (rpc = "exists" /\ rpc' # rpc /\ db[QualName] = RNone) =>
          printed' = <<"Cache.store was called 0 times:">>]_vars

C14_Witness ==
  /\ built = 2 /\ HasReturned = {1, 2}
  /\ \A k \in Keys : db[k] = RNone
  /\ rpc = "done" /\ printed = <<"Cache.store was called 0 times:">>

\* C20 as claimed: counter >= len(Inputs) >= len(Outputs) also holds when a
\* Cache is constructed between the steps of an invocation in flight.
C20_OrderSurvivesConstruction ==
  Counter >= Len(Inputs) /\ Len(Inputs) >= Len(Outputs)

\* C20: counter >= len(Inputs) >= len(Outputs) holds as long as every
\* construction of a Cache found no invocation in flight.
C20_OrderSurvivesQuietConstruction ==
  ~torn => (Counter >= Len(Inputs) /\ Len(Inputs) >= Len(Outputs))

C20_Witness ==
  /\ built = 2 /\ ~torn
  /\ Len(calls) = 2 /\ Counter = 1 /\ Len(Inputs) = 1 /\ Len(Outputs) = 1

====
